---- MODULE Spec2Model ----
(***************************************************************************)
(* The Gemini proxy server: process start, the rate limiter in front of    *)
(* POST /api/gemini, and the request handler with its upstream call.       *)
(*                                                                         *)
(* The repository holds two variants of the server: src/server.js and      *)
(* src/unnamed/part_000.  `variant` says which one the process runs.       *)
(*                                                                         *)
(* Encoding of JavaScript values:                                          *)
(*   - an optional value is a set: {} is undefined (absent), {v} is v;     *)
(*   - prompts, model names and generated texts are strings;               *)
(*   - error messages are sequences of tokens, so that includes(), split() *)
(*     and trim() are computed on them;                                    *)
(*   - a temperature is an integer number of tenths (2 is 0.2, 7 is 0.7).  *)
(***************************************************************************)
EXTENDS Integers, Sequences, FiniteSets

VARIABLES
    variant,    \* which source file runs: "server.js" or "part_000"
    apiKeyEnv,  \* process.env.GEMINI_API_KEY: {} unset, {""} or {"key"}
    pc,         \* position of the main script
    exitCode,   \* {} while running, {n} after process.exit(n)
    ai,         \* the GoogleGenAI client: {} before construction, {[apiKey]}
    listening,  \* app.listen has bound the port
    hits,       \* the rate limiter's per-IP counter of the current window
    phase,      \* per request slot: where the request is
    req,        \* per slot: {} or {[ip, body]}
    calls,      \* per slot: number of generateContent invocations
    callArgs,   \* per slot: {} or {the argument of generateContent}
    upstream,   \* per slot: the upstream promise
    responses,  \* per slot: sequence of responses written to the client
    escaped     \* per slot: an exception left the handler

vars == <<variant, apiKeyEnv, pc, exitCode, ai, listening, hits, phase, req,
          calls, callArgs, upstream, responses, escaped>>

procVars == <<variant, apiKeyEnv, pc, exitCode, ai, listening>>

-----------------------------------------------------------------------------
(* Bounds and input sets *)

\* In Spec the client starts a request only while its counter is below Burst:
\* the counters stay small and the handler's inputs are wide.
Burst == 1

\* In SpecRate a client IP keeps sending until its counter is Over above max.
Over == 1

Variants == {"server.js", "part_000"}

IPs == {"10.0.0.1", "10.0.0.2"}

Slots == {1, 2}

RateSlots == {1}

-----------------------------------------------------------------------------
(* Program constants *)

\* rateLimit({ max: 100 })
max == 100

\* maxOutputTokens default
DefaultMaxOutputTokens == 2048

\* the status of the missing-prompt answer
BadRequest == 400

\* the limiter's statusCode default
TooManyRequests == 429

\* the catch block's default status
InternalError == 500

\* res.json without res.status
OK == 200

\* isJson ? 0.2 : 0.7, in tenths
JsonTemperature == 2

TextTemperature == 7

DefaultModel == "gemini-2.5-flash"

-----------------------------------------------------------------------------
(* JavaScript helpers *)

Get(o) == CHOOSE x \in o : TRUE

\* str.includes(tok)
Includes(str, tok) == \E i \in 1..Len(str) : str[i] = tok

\* str.split(sep)[0]
SplitFirst(str, sep) ==
    IF Includes(str, sep)
    THEN LET k == CHOOSE i \in 1..Len(str) :
                     /\ str[i] = sep
                     /\ \A j \in 1..(i-1) : str[j] # sep
         IN SubSeq(str, 1, k-1)
    ELSE str

RECURSIVE TrimLeft(_)
TrimLeft(str) ==
    IF str # <<>> /\ Head(str) = " " THEN TrimLeft(Tail(str)) ELSE str

RECURSIVE TrimRight(_)
TrimRight(str) ==
    IF str # <<>> /\ str[Len(str)] = " "
    THEN TrimRight(SubSeq(str, 1, Len(str)-1))
    ELSE str

\* str.trim()
Trim(str) == TrimRight(TrimLeft(str))

\* `${x}` of an optional string
Interpolate(o) == IF o = {} THEN <<"undefined">> ELSE Get(o)

-----------------------------------------------------------------------------
(* Requests *)

NoOptions == [temperature |-> {}, maxOutputTokens |-> {}]

OptionValues ==
    { {}, {NoOptions},
      {[temperature |-> {0}, maxOutputTokens |-> {}]},
      {[temperature |-> {9}, maxOutputTokens |-> {}]} }

\* Bodies with a prompt: every isJson and every options.temperature, plus
\* one body naming a model and one overriding maxOutputTokens.
ValidBodies ==
    [prompt : {{"Hello"}}, model : {{}}, isJson : {{}, {TRUE}, {FALSE}},
     options : OptionValues]
    \cup
    { [prompt |-> {"Hello"}, model |-> {"gemini-pro"}, isJson |-> {},
       options |-> {}],
      [prompt |-> {"Hello"}, model |-> {""}, isJson |-> {TRUE},
       options |-> {[temperature |-> {}, maxOutputTokens |-> {512}]}] }

\* Bodies whose prompt is absent or the empty string.
InvalidBodies ==
    [prompt : {{}, {""}}, model : {{}}, isJson : {{}, {TRUE}},
     options : {{}, {[temperature |-> {9}, maxOutputTokens |-> {}]}}]

Bodies == ValidBodies \cup InvalidBodies

RateBodies ==
    { [prompt |-> {"Hello"}, model |-> {}, isJson |-> {}, options |-> {}],
      [prompt |-> {}, model |-> {}, isJson |-> {}, options |-> {}] }

-----------------------------------------------------------------------------
(* What the upstream call can do *)

\* response.text of a resolved call: absent, empty or a text
Texts == { {}, {""}, {"generated text"} }

RateTexts == { {"generated text"} }

RawKeyMessage == <<"[400] API key not valid: AIza-secret", " ", "API_KEY_INVALID">>

NoResponse == {}

ErrNoMessage == [message |-> {}, response |-> NoResponse]

ErrKeyInvalid == [message |-> {RawKeyMessage}, response |-> NoResponse]

ErrQuota ==
    [message |-> {<<"quota exceeded", " ", "at GoogleGenAI", ".generateContent">>},
     response |-> NoResponse]

ErrStackOnly ==
    [message |-> {<<" ", "at GoogleGenAI", ".generateContent">>},
     response |-> NoResponse]

ErrKeyInvalidHttp ==
    [message |-> {RawKeyMessage},
     response |-> {[status |-> {400},
                    data |-> {[error |-> {[message |-> {RawKeyMessage}]}]}]}]

ErrHttpNoErrorField ==
    [message |-> {<<"bad gateway">>},
     response |-> {[status |-> {502}, data |-> {[error |-> {}]}]}]

ErrHttpBare ==
    [message |-> {<<"socket hang up">>},
     response |-> {[status |-> {}, data |-> {}]}]

ErrHttpNoInnerMessage ==
    [message |-> {<<"upstream said no">>},
     response |-> {[status |-> {0},
                    data |-> {[error |-> {[message |-> {}]}]}]}]

Errors ==
    { ErrNoMessage, ErrKeyInvalid, ErrQuota, ErrStackOnly, ErrKeyInvalidHttp,
      ErrHttpNoErrorField, ErrHttpBare, ErrHttpNoInnerMessage }

RateErrors == { ErrNoMessage, ErrQuota, ErrHttpNoErrorField }

-----------------------------------------------------------------------------
(* The handler's pure parts *)

\* seeded fault: prompt === undefined in place of !prompt
MissingPromptUndefinedOnly(body) == body.prompt = {}

\* !prompt
MissingPrompt(body) == body.prompt \in {{}, {""}}

\* the truthiness of isJson
IsJson(body) == body.isJson = {TRUE}

\* options?.temperature
OptionsTemperature(body) ==
    IF body.options = {} THEN {} ELSE Get(body.options).temperature

\* options?.maxOutputTokens
OptionsMaxOutputTokens(body) ==
    IF body.options = {} THEN {} ELSE Get(body.options).maxOutputTokens

\* seeded fault: the two defaults exchanged
DefaultTemperatureSwapped(body) ==
    IF IsJson(body) THEN TextTemperature ELSE JsonTemperature

\* isJson ? 0.2 : 0.7
DefaultTemperature(body) ==
    IF IsJson(body) THEN JsonTemperature ELSE TextTemperature

\* server.js: temperature ; part_000: options?.temperature || (...)
Temperature(v, body) ==
    IF v = "part_000"
       /\ OptionsTemperature(body) # {}
       /\ OptionsTemperature(body) # {0}
    THEN Get(OptionsTemperature(body))
    ELSE DefaultTemperature(body)

\* server.js: 2048 ; part_000: options?.maxOutputTokens || 2048
MaxOutputTokens(v, body) ==
    IF v = "part_000"
       /\ OptionsMaxOutputTokens(body) # {}
       /\ OptionsMaxOutputTokens(body) # {0}
    THEN Get(OptionsMaxOutputTokens(body))
    ELSE DefaultMaxOutputTokens

\* isJson ? "application/json" : "text/plain"
ResponseMimeType(body) ==
    IF IsJson(body) THEN "application/json" ELSE "text/plain"

\* model || 'gemini-2.5-flash'
Model(body) ==
    IF body.model \in {{}, {""}} THEN DefaultModel ELSE Get(body.model)

\* the categories blocked at BLOCK_MEDIUM_AND_ABOVE
SafetySettings(v) ==
    IF v = "part_000"
    THEN {"HARM_CATEGORY_HARASSMENT", "HARM_CATEGORY_DANGEROUS_CONTENT"}
    ELSE {"HARM_CATEGORY_HARASSMENT"}

\* the argument of ai.models.generateContent
GenerateContentArgs(v, body) ==
    [model            |-> Model(body),
     contents         |-> <<[role |-> "user", text |-> Get(body.prompt)]>>,
     temperature      |-> Temperature(v, body),
     maxOutputTokens  |-> MaxOutputTokens(v, body),
     responseMimeType |-> ResponseMimeType(body),
     safetySettings   |-> SafetySettings(v)]

-----------------------------------------------------------------------------
(* Responses.  A JSON body is its four optional members: JSON.stringify     *)
(* leaves out a member whose value is undefined, so an absent member and an *)
(* undefined one are the same body.                                         *)

\* res.status(status).json({text, error, message, code})
Json(status, text, error, message, code) ==
    [status |-> status, type |-> "application/json", text |-> text,
     error |-> error, message |-> message, code |-> code]

\* res.status(400).json({ error: 'Missing prompt in request body.' })
MissingPromptResponse ==
    Json(BadRequest, {}, {<<"Missing prompt in request body.">>}, {}, {})

\* the limiter's message option
LimiterMessage(v) ==
    IF v = "part_000"
    THEN <<"Too many requests, please try again later.", " ", "(Proxy Rate Limit)">>
    ELSE <<"Too many requests, please try again later.">>

\* the limiter's answer once the quota is used up
TooManyResponse(v) == Json(TooManyRequests, {}, {LimiterMessage(v)}, {}, {})

\* seeded fault: res.json({ text: text || '' })
SuccessResponseDefaulted(text) ==
    Json(OK, IF text = {} THEN {""} ELSE text, {}, {}, {})

\* res.json({ text: text })
SuccessResponse(text) == Json(OK, text, {}, {}, {})

\* the framework's own answer to an error it is handed (not JSON)
DefaultErrorResponse ==
    [status |-> InternalError, type |-> "text/html", text |-> {},
     error |-> {}, message |-> {}, code |-> {}]

-----------------------------------------------------------------------------
(* The catch block *)

SanitizedKeyMessage == <<"API Key is invalid or not authorized.">>

ErrorPrefix == <<"Failed to call Gemini API: ">>

\* a && b truthiness of error.response.status
HasStatus(e) ==
    /\ e.response # {}
    /\ Get(e.response).status \notin {{}, {0}}

\* error.response && error.response.data
HasData(e) == e.response # {} /\ Get(e.response).data # {}

\* The catch block itself throws a TypeError:
\*   server.js reads error.response.data.error.message, part_000 calls
\*   error.message.includes, each on a value that may be undefined.
CatchThrows(v, e) ==
    IF v = "part_000"
    THEN e.message = {}
    ELSE HasData(e) /\ Get(Get(e.response).data).error = {}

\* server.js: error.response.status or 500 ; part_000: 500
StatusCode(v, e) ==
    IF v = "server.js" /\ HasStatus(e)
    THEN Get(Get(e.response).status)
    ELSE InternalError

\* part_000: apiErrorMessage
ApiErrorMessage(e) ==
    IF Includes(Get(e.message), "API_KEY_INVALID")
    THEN SanitizedKeyMessage
    ELSE IF Trim(SplitFirst(Get(e.message), "at GoogleGenAI")) # <<>>
         THEN Trim(SplitFirst(Get(e.message), "at GoogleGenAI"))
         ELSE <<"Internal Server Error">>

\* server.js: errorMessage, which may be undefined
ErrorMessage(e) ==
    IF HasData(e)
    THEN Get(Get(Get(e.response).data).error).message
    ELSE {<<"Internal Server Error">>}

\* res.status(...).json({...}) of the catch block
ErrorResponse(v, e) ==
    IF v = "part_000"
    THEN Json(InternalError, {}, {ErrorPrefix \o ApiErrorMessage(e)}, {},
              {InternalError})
    ELSE Json(StatusCode(v, e), {},
              {ErrorPrefix \o Interpolate(ErrorMessage(e))},
              ErrorMessage(e), {StatusCode(v, e)})

-----------------------------------------------------------------------------
(* State *)

IdlePromise == [state |-> "idle", text |-> {}, error |-> {}]

Init ==
    /\ variant \in Variants
    /\ apiKeyEnv \in { {}, {""}, {"key"} }
    /\ pc = "start"
    /\ exitCode = {}
    /\ ai = {}
    /\ listening = FALSE
    /\ hits = [ip \in IPs |-> 0]
    /\ phase = [s \in Slots |-> "idle"]
    /\ req = [s \in Slots |-> {}]
    /\ calls = [s \in Slots |-> 0]
    /\ callArgs = [s \in Slots |-> {}]
    /\ upstream = [s \in Slots |-> IdlePromise]
    /\ responses = [s \in Slots |-> <<>>]
    /\ escaped = [s \in Slots |-> FALSE]

reqVars == <<hits, phase, req, calls, callArgs, upstream,
             responses, escaped>>

-----------------------------------------------------------------------------
(* Process start *)

\* seeded fault: the missing key is logged and the script goes on
CheckApiKeyNoExit ==
    /\ pc = "start"
    /\ pc' = "configured"
    /\ UNCHANGED <<variant, apiKeyEnv, exitCode, ai, listening, reqVars>>

\* if (!API_KEY) { ...; process.exit(1); }
CheckApiKey ==
    /\ pc = "start"
    /\ IF apiKeyEnv \in {{}, {""}}
       THEN pc' = "exited" /\ exitCode' = {1}
       ELSE pc' = "configured" /\ exitCode' = exitCode
    /\ UNCHANGED <<variant, apiKeyEnv, ai, listening, reqVars>>

\* new GoogleGenAI({ apiKey }), express(), the app.use and app.post calls
Setup ==
    /\ pc = "configured"
    /\ ai' = {[apiKey |-> apiKeyEnv]}
    /\ pc' = "setup"
    /\ UNCHANGED <<variant, apiKeyEnv, exitCode, listening, reqVars>>

\* app.listen(PORT, ...)
Listen ==
    /\ pc = "setup"
    /\ listening' = TRUE
    /\ pc' = "listening"
    /\ UNCHANGED <<variant, apiKeyEnv, exitCode, ai, reqVars>>

-----------------------------------------------------------------------------
(* One request *)

\* a POST /api/gemini arrives from ip with a parsed JSON body
Receive(s, ip, body) ==
    /\ pc = "listening" /\ listening
    /\ phase[s] = "idle"
    /\ req' = [req EXCEPT ![s] = {[ip |-> ip, body |-> body]}]
    /\ phase' = [phase EXCEPT ![s] = "arrived"]
    /\ UNCHANGED <<procVars, hits, calls, callArgs, upstream,
                   responses, escaped>>

\* seeded fault: one request too many is let through
LimitExceededOffByOne(n) == n > max + 1

\* the limiter's test of the count it has just incremented
LimitExceeded(n) == n > max

\* app.use('/api/gemini', apiLimiter): count the request, answer 429 once
\* the IP's count is above max, else pass it on
ApiLimiter(s) ==
    /\ pc = "listening"
    /\ phase[s] = "arrived"
    /\ LET ip == Get(req[s]).ip
           n  == hits[ip] + 1
       IN /\ hits' = [hits EXCEPT ![ip] = n]
          /\ IF LimitExceeded(n)
             THEN /\ responses' = [responses EXCEPT
                                      ![s] = Append(@, TooManyResponse(variant))]
                  /\ phase' = [phase EXCEPT ![s] = "done"]
             ELSE /\ responses' = responses
                  /\ phase' = [phase EXCEPT ![s] = "routed"]
    /\ UNCHANGED <<procVars, req, calls, callArgs, upstream, escaped>>

\* windowMs elapses for ip: its counter starts again
ResetWindow(ip) ==
    /\ pc = "listening"
    /\ hits[ip] > 0
    /\ hits' = [hits EXCEPT ![ip] = 0]
    /\ UNCHANGED <<procVars, phase, req, calls, callArgs, upstream,
                   responses, escaped>>

\* the handler up to its await: the prompt check, the config, the call
Handler(s) ==
    /\ pc = "listening"
    /\ phase[s] = "routed"
    /\ LET body == Get(req[s]).body
       IN IF MissingPrompt(body)
          THEN /\ responses' = [responses EXCEPT
                                   ![s] = Append(@, MissingPromptResponse)]
               /\ phase' = [phase EXCEPT ![s] = "done"]
               /\ UNCHANGED <<calls, callArgs, upstream>>
          ELSE /\ calls' = [calls EXCEPT ![s] = @ + 1]
               /\ callArgs' = [callArgs EXCEPT
                                  ![s] = {GenerateContentArgs(variant, body)}]
               /\ upstream' = [upstream EXCEPT ![s].state = "pending"]
               /\ phase' = [phase EXCEPT ![s] = "awaiting"]
               /\ responses' = responses
    /\ UNCHANGED <<procVars, hits, req, escaped>>

\* the call resolves: const text = response.text; res.json({ text: text })
Resolve(s, text) ==
    /\ pc = "listening"
    /\ phase[s] = "awaiting"
    /\ upstream' = [upstream EXCEPT
                       ![s] = [state |-> "resolved", text |-> text, error |-> {}]]
    /\ responses' = [responses EXCEPT ![s] = Append(@, SuccessResponse(text))]
    /\ phase' = [phase EXCEPT ![s] = "done"]
    /\ UNCHANGED <<procVars, hits, req, calls, callArgs, escaped>>

\* seeded fault: a rejected call is made again
RejectAndRetry(s, e) ==
    /\ pc = "listening"
    /\ phase[s] = "awaiting"
    /\ calls' = [calls EXCEPT ![s] = @ + 1]
    /\ upstream' = [upstream EXCEPT ![s].state = "pending"]
    /\ UNCHANGED <<procVars, hits, phase, req, callArgs, responses, escaped>>

\* the call rejects with e: the catch block answers, unless it throws itself
Reject(s, e) ==
    /\ pc = "listening"
    /\ phase[s] = "awaiting"
    /\ upstream' = [upstream EXCEPT
                       ![s] = [state |-> "rejected", text |-> {}, error |-> {e}]]
    /\ IF CatchThrows(variant, e)
       THEN /\ escaped' = [escaped EXCEPT ![s] = TRUE]
            /\ phase' = [phase EXCEPT ![s] = "escaped"]
            /\ responses' = responses
       ELSE /\ responses' = [responses EXCEPT
                                ![s] = Append(@, ErrorResponse(variant, e))]
            /\ phase' = [phase EXCEPT ![s] = "done"]
            /\ escaped' = escaped
    /\ UNCHANGED <<procVars, hits, req, calls, callArgs>>

\* The async handler's promise rejected.  What happens next is the
\* framework's and the runtime's choice, not the handler's: a framework that
\* awaits handlers answers with its default error page ...
DefaultErrorHandler(s) ==
    /\ pc = "listening"
    /\ phase[s] = "escaped"
    /\ responses' = [responses EXCEPT ![s] = Append(@, DefaultErrorResponse)]
    /\ phase' = [phase EXCEPT ![s] = "done"]
    /\ UNCHANGED <<procVars, hits, req, calls, callArgs, upstream,
                   escaped>>

\* ... one that does not leaves an unhandled rejection, on which the runtime
\* ends the process (or the request is left without an answer: no step).
UnhandledRejection(s) ==
    /\ pc = "listening"
    /\ phase[s] = "escaped"
    /\ pc' = "crashed"
    /\ listening' = FALSE
    /\ UNCHANGED <<variant, apiKeyEnv, exitCode, ai, reqVars>>

\* the exchange is over (answered, or given up by the client)
Release(s) ==
    /\ pc = "listening"
    /\ phase[s] \in {"done", "escaped"}
    /\ phase' = [phase EXCEPT ![s] = "idle"]
    /\ req' = [req EXCEPT ![s] = {}]
    /\ calls' = [calls EXCEPT ![s] = 0]
    /\ callArgs' = [callArgs EXCEPT ![s] = {}]
    /\ upstream' = [upstream EXCEPT ![s] = IdlePromise]
    /\ responses' = [responses EXCEPT ![s] = <<>>]
    /\ escaped' = [escaped EXCEPT ![s] = FALSE]
    /\ UNCHANGED <<procVars, hits>>

-----------------------------------------------------------------------------
(* Specifications *)

\* Two concurrent requests of one client, every body, every upstream outcome.
Next ==
    \/ CheckApiKey
    \/ Setup
    \/ Listen
    \/ \E s \in Slots, body \in Bodies :
          hits["10.0.0.1"] < Burst /\ Receive(s, "10.0.0.1", body)
    \/ \E s \in Slots : ApiLimiter(s)
    \/ \E ip \in IPs : ResetWindow(ip)
    \/ \E s \in Slots : Handler(s)
    \/ \E s \in Slots, text \in Texts : Resolve(s, text)
    \/ \E s \in Slots, e \in Errors : Reject(s, e)
    \/ \E s \in Slots : DefaultErrorHandler(s)
    \/ \E s \in Slots : UnhandledRejection(s)
    \/ \E s \in Slots : Release(s)

Spec == Init /\ [][Next]_vars

\* Two clients, one request at a time, each sending past the quota.
NextRate ==
    \/ CheckApiKey
    \/ Setup
    \/ Listen
    \/ \E s \in RateSlots, ip \in IPs, body \in RateBodies :
          hits[ip] < max + Over /\ Receive(s, ip, body)
    \/ \E s \in RateSlots : ApiLimiter(s)
    \/ \E ip \in IPs : ResetWindow(ip)
    \/ \E s \in RateSlots : Handler(s)
    \/ \E s \in RateSlots, text \in RateTexts : Resolve(s, text)
    \/ \E s \in RateSlots, e \in RateErrors : Reject(s, e)
    \/ \E s \in RateSlots : DefaultErrorHandler(s)
    \/ \E s \in RateSlots : UnhandledRejection(s)
    \/ \E s \in RateSlots : Release(s)

SpecRate == Init /\ [][NextRate]_vars

-----------------------------------------------------------------------------
(* Vocabulary of the properties *)

Body(s) == Get(req[s]).body

\* the handler's work for the request in s is over
Finished(s) == phase[s] \in {"done", "escaped"}

\* the request in s was answered by the limiter
RateLimited(s) ==
    responses[s] # <<>> /\ responses[s][1].status = 429

PromptPresent(s) == Body(s).prompt \notin {{}, {""}}

TemperatureSupplied(s) ==
    Body(s).options # {} /\ Get(Body(s).options).temperature # {}

-----------------------------------------------------------------------------
(* C1 *)

\* C1: a request that reaches the handler with an empty or absent prompt is
\* answered 400 {error: "Missing prompt in request body."}, and
\* generateContent is never invoked for it.
C1_MissingPromptRejected ==
    \A s \in Slots :
        (req[s] # {} /\ ~PromptPresent(s)) =>
            /\ calls[s] = 0
            /\ callArgs[s] = {}
            /\ upstream[s].state = "idle"
            /\ phase[s] \in {"arrived", "routed", "done"}
            /\ (phase[s] = "done" /\ ~RateLimited(s)) =>
                  responses[s] =
                     << [status |-> 400, type |-> "application/json",
                         text |-> {},
                         error |-> {<<"Missing prompt in request body.">>},
                         message |-> {}, code |-> {}] >>

C1_Witness ==
    \E s \in Slots :
        /\ req[s] # {}
        /\ Body(s).prompt = {""}
        /\ phase[s] = "done"
        /\ Len(responses[s]) = 1
        /\ responses[s][1].status = 400

-----------------------------------------------------------------------------
(* C2 *)

\* C2: every handled request has exactly one response, which carries a text
\* or an error, never both and never neither.
C2_ExactlyOneResultOrError ==
    \A s \in Slots :
        /\ Len(responses[s]) <= 1
        /\ Finished(s) =>
              /\ Len(responses[s]) = 1
              /\ responses[s][1].type = "application/json"
              /\ (responses[s][1].text # {}) # (responses[s][1].error # {})

-----------------------------------------------------------------------------
(* C3 *)

\* C3: whatever value the upstream call rejects with, the handler catches
\* it and answers with a JSON body carrying an error string and a numeric
\* code; no exception leaves the handler.
C3_EveryFailureMapped ==
    \A s \in Slots :
        upstream[s].state = "rejected" =>
            /\ ~escaped[s]
            /\ Len(responses[s]) = 1
            /\ responses[s][1].type = "application/json"
            /\ responses[s][1].error # {}
            /\ responses[s][1].code # {}

-----------------------------------------------------------------------------
(* C4 *)

\* C4: when the upstream call rejects with an invalid-API-key failure, the
\* message the client sees is the fixed sanitized string and holds nothing
\* of the raw upstream error text.
C4_KeyErrorSanitized ==
    \A s \in Slots :
        ( /\ upstream[s].state = "rejected"
          /\ Get(upstream[s].error).message # {}
          /\ Includes(Get(Get(upstream[s].error).message), "API_KEY_INVALID")
          /\ phase[s] = "done" ) =>
            /\ Len(responses[s]) = 1
            /\ responses[s][1].error =
                  { <<"Failed to call Gemini API: ",
                      "API Key is invalid or not authorized.">> }
            /\ responses[s][1].message \in
                  { {}, {<<"API Key is invalid or not authorized.">>} }

-----------------------------------------------------------------------------
(* C6 *)

\* C6: with a non-empty prompt and no options.temperature, the temperature
\* passed upstream is 0.2 when isJson is true and 0.7 otherwise, and the
\* responseMimeType is application/json resp. text/plain.
C6_DefaultTemperature ==
    \A s \in Slots :
        /\ (phase[s] = "awaiting") => (callArgs[s] # {} /\ PromptPresent(s))
        /\ (callArgs[s] # {} /\ ~TemperatureSupplied(s)) =>
              IF Body(s).isJson = {TRUE}
              THEN /\ Get(callArgs[s]).temperature = 2
                   /\ Get(callArgs[s]).responseMimeType = "application/json"
              ELSE /\ Get(callArgs[s]).temperature = 7
                   /\ Get(callArgs[s]).responseMimeType = "text/plain"

C6_Witness ==
    \E s, t \in Slots :
        /\ phase[s] = "awaiting" /\ phase[t] = "awaiting"
        /\ Body(s).isJson = {TRUE} /\ Body(t).isJson = {}
        /\ Body(s).options = {} /\ Body(t).options = {NoOptions}
        /\ Get(callArgs[s]).temperature = 2
        /\ Get(callArgs[t]).temperature = 7

-----------------------------------------------------------------------------
(* C7 *)

\* C7: with a non-empty prompt and an options.temperature, the temperature
\* passed upstream is the supplied value, whatever isJson is.
C7_SuppliedTemperatureWins ==
    \A s \in Slots :
        (callArgs[s] # {} /\ TemperatureSupplied(s)) =>
            Get(callArgs[s]).temperature =
               Get(Get(Body(s).options).temperature)

-----------------------------------------------------------------------------
(* C8 *)

\* C8: when the upstream call succeeds the answer is a 200 whose text member
\* is the upstream response's text, unchanged: a text as it is, the empty
\* string as the empty string, an absent text as an absent member.
C8_TextVerbatim ==
    \A s \in Slots :
        upstream[s].state = "resolved" =>
            /\ phase[s] = "done"
            /\ responses[s] =
                  << [status |-> 200, type |-> "application/json",
                      text |-> upstream[s].text, error |-> {},
                      message |-> {}, code |-> {}] >>

C8_Witness ==
    \E s, t \in Slots :
        /\ upstream[s].state = "resolved" /\ upstream[t].state = "resolved"
        /\ upstream[s].text = {"generated text"}
        /\ upstream[t].text = {}
        /\ responses[s][1].text = {"generated text"}
        /\ responses[t][1].text = {}

-----------------------------------------------------------------------------
(* C9 *)

\* C9: started without GEMINI_API_KEY, the process exits with status 1
\* before the client is constructed, the port bound or a request handled.
C9_NoKeyNoListen ==
    apiKeyEnv = {} =>
        /\ pc \in {"start", "exited"}
        /\ ~listening
        /\ ai = {}
        /\ (pc = "start") => (exitCode = {} /\ ENABLED CheckApiKey)
        /\ (pc = "exited") => (exitCode = {1})
        /\ \A s \in Slots :
              phase[s] = "idle" /\ calls[s] = 0 /\ responses[s] = <<>>

C9_Witness == apiKeyEnv = {} /\ pc = "exited" /\ exitCode = {1} /\ ~listening

-----------------------------------------------------------------------------
(* C10 *)

\* C10: generateContent is invoked at most once per request: once when the
\* request passed the limiter with a non-empty prompt, never otherwise; a
\* failed call is not retried; the answer follows the call's settling.
C10_SingleAttempt ==
    \A s \in Slots :
        /\ calls[s] <= 1
        /\ (phase[s] \in {"idle", "arrived", "routed"}) => calls[s] = 0
        /\ (phase[s] = "awaiting") =>
              (calls[s] = 1 /\ upstream[s].state = "pending")
        /\ Finished(s) =>
              calls[s] = IF PromptPresent(s) /\ ~RateLimited(s) THEN 1 ELSE 0
        /\ (upstream[s].state = "pending") => responses[s] = <<>>
        /\ (responses[s] # <<>> /\ calls[s] = 1) =>
              upstream[s].state \in {"resolved", "rejected"}

C10_Witness ==
    \E s \in Slots :
        /\ phase[s] = "done"
        /\ upstream[s].state = "rejected"
        /\ calls[s] = 1
        /\ Len(responses[s]) = 1
        /\ hits[Get(req[s]).ip] = max

-----------------------------------------------------------------------------
(* C5 *)

\* C5: once an IP has made 100 requests in the window (whatever their
\* answers), its next request is answered 429 by the limiter and never
\* reaches generateContent; the count of one IP does not touch another's.
C5_LimiterStep ==
    \A s \in Slots :
        (phase[s] = "arrived" /\ phase'[s] # "arrived") =>
            /\ hits' = [hits EXCEPT ![Get(req[s]).ip] = @ + 1]
            /\ calls'[s] = 0
            /\ IF hits[Get(req[s]).ip] >= 100
               THEN /\ phase'[s] = "done"
                    /\ Len(responses'[s]) = 1
                    /\ responses'[s][1].status = 429
                    /\ responses'[s][1].error # {}
               ELSE /\ phase'[s] = "routed"
                    /\ responses'[s] = <<>>

C5_RateLimited ==
    /\ [](\A s \in Slots : RateLimited(s) =>
             (calls[s] = 0 /\ upstream[s].state = "idle" /\ phase[s] = "done"))
    /\ [][C5_LimiterStep]_vars

C5_Witness ==
    \E s \in Slots :
        /\ RateLimited(s)
        /\ Get(req[s]).ip = "10.0.0.1"
        /\ hits["10.0.0.1"] = 101
        /\ hits["10.0.0.2"] \in 1..100

====
